---- MODULE Spec2Model ----
(***************************************************************************)
(* client-session: Express middleware keeping session data in a signed     *)
(* JWT cookie.  The model covers DeepProxy (the mutation tracker),         *)
(* SessionObj (reserved keys, issuance on change) and ClientSession (the   *)
(* middleware, token issuance, termination).                               *)
(*                                                                         *)
(* A session tree is a function from paths (sequences of keys) to nodes.   *)
(* A node is [t, v, w]: t is the JavaScript kind ("str", "num", "null",    *)
(* "fn", "obj"), v the primitive's text, w the sequence of Proxy wrappers  *)
(* around a composite, each wrapper being the path its handler was created *)
(* with (innermost first).  The JSON text of a tree is a function from     *)
(* paths to [t, v]: no wrappers, no function-valued properties.            *)
(* Composite values are mappings; key order is not modelled.               *)
(***************************************************************************)
EXTENDS Integers, Sequences, FiniteSets, TLC

\* ------------------------------------------------------------------ bounds
MaxOps == 3       \* handler operations in a run
MaxOpsNull == 4   \* the same, where handlers assign only null and {}
MaxOpsHandle == 4 \* the same, where handlers also assign handles of the session
MaxOpsConc == 2   \* the same, where two requests are in flight together
MaxReqsConc == 3  \* requests started in a run with two in flight together
MaxReqs == 2      \* requests started in a run
MaxDepth == 2     \* longest path of a tree
MaxTicks == 2     \* clock ticks in a run
ExpiresIn == 1    \* options.expiresIn, seconds
TickMs == 1000 \div 2  \* one clock tick, milliseconds

Keys == {"originIP", "terminate", "a"}
KeysNull == {"a", "b"}
KeysHandle == {"originIP", "a"}
KeysConc == {"a"}
IPs == {"ip1", "ip2"}
Reqs == {1}
\* the requests that can be in flight together
Slots == {1, 2}

\* ------------------------------------------------------------------ paths
IsPrefix(p, q) == Len(p) <= Len(q) /\ SubSeq(q, 1, Len(p)) = p
Rel(p, q) == SubSeq(q, Len(p) + 1, Len(q))

\* ------------------------------------------------------------------ values
Prim(t, v) == [t |-> t, v |-> v]
JObj == Prim("obj", "")
JNull == Prim("null", "")
EmptyJson == [p \in {} |-> JNull]
JLeaf(n) == [p \in {<<>>} |-> n]
JNest(k, n) == [p \in {<<>>, <<k>>} |-> IF p = <<>> THEN JObj ELSE n]
\* the values a handler assigns: 0, 1, null, {}, {a: {}}
Vals == {JLeaf(Prim("num", "0")), JLeaf(Prim("num", "1")), JLeaf(JNull), JLeaf(JObj),
         JNest("a", JObj)}
ValsNull == {JLeaf(JNull), JLeaf(JObj)}
\* 0 and {}
ValsHandle == {JLeaf(Prim("num", "0")), JLeaf(JObj)}
Height(j) == CHOOSE n \in 0..MaxDepth :
                 /\ \E p \in DOMAIN j : Len(p) = n
                 /\ \A p \in DOMAIN j : Len(p) <= n

Node(n) == [t |-> n.t, v |-> n.v, w |-> <<>>]
FnNode == [t |-> "fn", v |-> "", w |-> <<>>]
StrNode(s) == [t |-> "str", v |-> s, w |-> <<>>]

\* typeof x === 'object'
TypeofObject(n) == n.t \in {"obj", "null"}

\* JSON.parse: plain objects, nothing wrapped
JSONparse(j) == [p \in DOMAIN j |-> Node(j[p])]

\* a serializer that writes the top-level properties only
JSONstringifyShallow(tree) ==
    [p \in {q \in DOMAIN tree : Len(q) <= 1 /\ tree[q].t # "fn"} |->
        Prim(tree[p].t, tree[p].v)]

\* JSON.stringify: reads through proxies, leaves out function-valued properties
JSONstringify(tree) ==
    LET keep == {p \in DOMAIN tree :
                    \A q \in DOMAIN tree : IsPrefix(q, p) => tree[q].t # "fn"}
    IN [p \in keep |-> Prim(tree[p].t, tree[p].v)]

\* target[key] = value, where q is the path of target[key]
Store(tree, q, sub) ==
    LET dom == {x \in DOMAIN tree : ~IsPrefix(q, x)} \cup {q \o r : r \in DOMAIN sub}
    IN [x \in dom |-> IF IsPrefix(q, x) THEN sub[Rel(q, x)] ELSE tree[x]]

\* delete target[key] on a plain object
Remove(tree, q) == [x \in {y \in DOMAIN tree : ~IsPrefix(q, y)} |-> tree[x]]

HasNull(sub) == \E r \in DOMAIN sub : sub[r].t = "null"

\* ------------------------------------------------------------------ DeepProxy
\* proxify(obj, path): every composite of obj gets one more Proxy, created with
\* the path of that composite.  (new Proxy(null, ...) throws: see HasNull.)
proxify(sub, path) ==
    [r \in DOMAIN sub |->
        IF sub[r].t = "obj" THEN [sub[r] EXCEPT !.w = Append(@, path \o r)] ELSE sub[r]]

\* the value of a set seen by every trap between the caller and the raw target:
\* the outermost Proxy's trap wraps first
RECURSIVE proxifyThrough(_, _, _, _)
proxifyThrough(sub, w, key, i) ==
    IF i = 0 THEN sub
    ELSE proxifyThrough(proxify(sub, Append(w[i], key)), w, key, i - 1)

\* set trap of the Proxy at loc.  A plain object has no trap: the assignment
\* just happens.  hooks: the paths handed to _handler.set, innermost Proxy first.
setTrap(tree, loc, key, sub) ==
    LET w == tree[loc].w
        q == Append(loc, key)
    IN IF w = <<>>
       THEN [tree |-> Store(tree, q, sub), threw |-> "none", hooks |-> <<>>]
       ELSE IF HasNull(sub)
       THEN [tree |-> tree, threw |-> "type", hooks |-> <<>>]
       ELSE [tree |-> Store(tree, q, proxifyThrough(sub, w, key, Len(w))),
             threw |-> "none",
             hooks |-> [i \in 1..Len(w) |-> Append(w[i], key)]]

\* self._handler.set(target, path, ...): the call is recorded; the handler of
\* SessionObj throws for a reserved root property
hookAt(S, path) ==
    IF S.threw # "none" THEN S
    ELSE [S EXCEPT !.hooks = Append(@, path),
                   !.threw = IF path[1] \in {"originIP", "terminate"} THEN "reserved"
                             ELSE "none"]

\* proxify(obj, path) where obj is the value at q of the tree, a Proxy or a
\* plain object: every child that is typeof 'object' is proxified and assigned
\* back through obj (through obj's set traps when obj is a Proxy), then obj
\* gets one more Proxy.  S is [tree, threw, hooks]; the result is the set of
\* outcomes, one for each order in which for-in can list the children.
RECURSIVE proxifyAt(_, _, _)
RECURSIVE proxifyKidsAt(_, _, _, _)
RECURSIVE trapChain(_, _, _, _)
proxifyAt(S, q, path) ==
    IF S.threw # "none" THEN {S}
    ELSE IF S.tree[q].t = "null" THEN {[S EXCEPT !.threw = "type"]}
    ELSE LET kids == {c \in DOMAIN S.tree :
                         Len(c) = Len(q) + 1 /\ IsPrefix(q, c) /\ TypeofObject(S.tree[c])}
         IN {IF S1.threw # "none" THEN S1
             ELSE [S1 EXCEPT !.tree[q].w = Append(@, path)] :
                S1 \in proxifyKidsAt(S, q, path, kids)}
\* the loop of proxify: obj[key] = this.proxify(obj[key], [...path, key])
proxifyKidsAt(S, q, path, todo) ==
    IF todo = {} \/ S.threw # "none" THEN {S}
    ELSE UNION {UNION {UNION {proxifyKidsAt(S2, q, path, todo \ {c}) :
                                 S2 \in trapChain(S1, q, c[Len(c)], Len(S1.tree[q].w))} :
                          S1 \in proxifyAt(S, c, Append(path, c[Len(c)]))} : c \in todo}
\* handle[key] = value, the value being the one at key of loc already: the set
\* trap of the i-th Proxy around loc proxifies the value, assigns it to its
\* target (the next Proxy inwards, or the plain object) and calls the handler
trapChain(S, loc, key, i) ==
    IF S.threw # "none" \/ i = 0 THEN {S}
    ELSE LET hp == Append(S.tree[loc].w[i], key)
             q == Append(loc, key)
         IN UNION {{hookAt(S2, hp) : S2 \in trapChain(S1, loc, key, i - 1)} :
                      S1 \in IF TypeofObject(S.tree[q]) THEN proxifyAt(S, q, hp) ELSE {S}}

\* set trap of the Proxy at loc for session<loc>[key] = session<loc>[key],
\* the value being a composite of the tree
setTrapHandle(tree, loc, key) ==
    IF tree[loc].w = <<>>
    THEN {[tree |-> tree, threw |-> "none", hooks |-> <<>>]}
    ELSE trapChain([tree |-> tree, threw |-> "none", hooks |-> <<>>],
                   loc, key, Len(tree[loc].w))

\* unproxy(obj, key), q the path of obj[key]: the set of results, one for each
\* order in which Object.keys can list the children.  Object.keys(null) throws.
RECURSIVE unproxy(_, _)
RECURSIVE unproxyKeys(_, _)
unproxy(tree, q) ==
    LET n == tree[q]
        t1 == IF n.w # <<>> THEN [tree EXCEPT ![q].w = SubSeq(@, 1, Len(@) - 1)]
              ELSE tree
        kids == {c \in DOMAIN tree :
                    Len(c) = Len(q) + 1 /\ IsPrefix(q, c) /\ TypeofObject(tree[c])}
    IN IF n.t = "null" THEN {[tree |-> tree, threw |-> TRUE]}
       ELSE unproxyKeys(t1, kids)
unproxyKeys(tree, todo) ==
    IF todo = {} THEN {[tree |-> tree, threw |-> FALSE]}
    ELSE UNION {UNION {IF o.threw THEN {o} ELSE unproxyKeys(o.tree, todo \ {c}) :
                          o \in unproxy(tree, c)} : c \in todo}

\* deleteProperty trap of the Proxy at loc: the set of its results.  The trap
\* unproxies target[key] and reports it deleted; nothing removes the key.
deleteTrap(tree, loc, key) ==
    LET w == tree[loc].w
        q == Append(loc, key)
    IN IF w = <<>>
       THEN {[tree |-> Remove(tree, q), threw |-> "none", hooks |-> <<>>]}
       ELSE IF q \notin DOMAIN tree
       THEN {[tree |-> tree, threw |-> "none", hooks |-> <<>>]}
       ELSE {IF o.threw
             THEN [tree |-> o.tree, threw |-> "type", hooks |-> <<>>]
             ELSE [tree |-> o.tree, threw |-> "none",
                   hooks |-> <<Append(w[Len(w)], key)>>] : o \in unproxy(tree, q)}

\* ------------------------------------------------------------------ SessionObj
\* a reserved list that misses terminate
reservedPropOriginOnly(rootProp) == rootProp = "originIP"

reservedProp(rootProp) == rootProp \in {"originIP", "terminate"}

\* the handler given to DeepProxy, run on the hooks of one trap: every hook
\* issues a token until one names a reserved root property, which throws
handlerRun(out) ==
    LET bad == {i \in 1..Len(out.hooks) : reservedProp(out.hooks[i][1])}
        stop == IF bad = {} THEN Len(out.hooks) + 1
                ELSE CHOOSE i \in bad : \A j \in bad : i <= j
    IN [tree |-> out.tree,
        threw |-> IF out.threw # "none" THEN out.threw
                  ELSE IF bad # {} THEN "reserved" ELSE "none",
        issued |-> stop - 1]

\* a constructor that stamps the request's origin on every session it builds
SessionDataRewriting(prevPayload, hasPrev, ip) ==
    IF hasPrev
    THEN Store(Store(prevPayload, <<"terminate">>, JLeaf(FnNode)),
               <<"originIP">>, JLeaf(StrNode(ip)))
    ELSE [p \in {<<>>, <<"originIP">>, <<"terminate">>} |->
             IF p = <<>> THEN Node(JObj)
             ELSE IF p = <<"originIP">> THEN StrNode(ip) ELSE FnNode]

\* new SessionObj(prevPayload, ip, ...): #data before it is handed to DeepProxy
SessionData(prevPayload, hasPrev, ip) ==
    IF hasPrev
    THEN Store(prevPayload, <<"terminate">>, JLeaf(FnNode))
    ELSE [p \in {<<>>, <<"originIP">>, <<"terminate">>} |->
             IF p = <<>> THEN Node(JObj)
             ELSE IF p = <<"originIP">> THEN StrNode(ip) ELSE FnNode]

\* new DeepProxy(this.#data, handler)
SessionObj(prevPayload, hasPrev, ip) == proxify(SessionData(prevPayload, hasPrev, ip), <<>>)

\* ------------------------------------------------------------------ tokens
NoToken == [form |-> "none", sig |-> "", exp |-> 0, data |-> EmptyJson]
Garbage == [form |-> "garbage", sig |-> "", exp |-> 0, data |-> EmptyJson]
\* jwt.sign({exp, data}, this.secret, {algorithm: 'HS256'})
jwtSign(exp, data) == [form |-> "jwt", sig |-> "secret", exp |-> exp, data |-> data]
\* a token built without the secret, carrying the same claims
Forged(tok) == [form |-> "jwt", sig |-> "forged", exp |-> tok.exp, data |-> tok.data]
\* a verification that still takes a token in the second its exp names
jwtVerifyLate(tok, nowMs) ==
    IF tok.form # "jwt" THEN "malformed"
    ELSE IF tok.sig # "secret" THEN "signature"
    ELSE IF nowMs \div 1000 > tok.exp THEN "expired"
    ELSE "none"

\* jwt.verify(token, this.secret, cb): the err handed to cb
jwtVerify(tok, nowMs) ==
    IF tok.form # "jwt" THEN "malformed"
    ELSE IF tok.sig # "secret" THEN "signature"
    ELSE IF nowMs \div 1000 >= tok.exp THEN "expired"
    ELSE "none"

NoCookie == [state |-> "untouched", token |-> NoToken, expires |-> 0]
NoLast == [op |-> "init", r |-> 0, h |-> 0, loc |-> <<>>, key |-> "", nullval |-> FALSE,
           wrapped |-> FALSE, present |-> FALSE, threw |-> "none", issued |-> 0]

VARIABLES
    now,              \* Date.now(), milliseconds
    restrictIPAccess, \* options.restrictIPAccess: "true", "false" or "undefined"
    jar,              \* the client's accessToken cookie: [token, expires]
    nreq,             \* requests started so far
    pc,               \* per request: "idle", "handler" (next() was called), "done", "denied", "error"
    req,              \* per request: [ip, cookie] of the inbound request
    sess,             \* per request: every SessionObj built, as its #data tree
    cur,              \* per request: which of sess is req.clientSession; 0: undefined
    res,              \* per request: [cookie, status, sends, nexts] of the response
    nops,             \* handler operations so far
    last              \* the last operation and what it did

vars == <<now, restrictIPAccess, jar, nreq, pc, req, sess, cur, res, nops, last>>

NoRes == [cookie |-> NoCookie, status |-> 0, sends |-> 0, nexts |-> 0]

Init ==
    /\ now = 0
    /\ restrictIPAccess \in {"true", "false", "undefined"}
    /\ jar = [token |-> NoToken, expires |-> 0]
    /\ nreq = 0
    /\ pc = [r \in Slots |-> "idle"]
    /\ req = [r \in Slots |-> [ip |-> "ip1", cookie |-> NoToken]]
    /\ sess = [r \in Slots |-> <<>>]
    /\ cur = [r \in Slots |-> 0]
    /\ res = [r \in Slots |-> NoRes]
    /\ nops = 0
    /\ last = NoLast

\* ------------------------------------------------------------------ ClientSession
\* updateCookie(token, req, res): res.cookie('accessToken', token, {expires, httpOnly})
updateCookie(token, nowMs) ==
    [state |-> "set", token |-> token, expires |-> nowMs + ExpiresIn]

\* the issueToken callback of createSessionObj
issueToken(tokenPayload, nowMs) ==
    updateCookie(jwtSign(nowMs \div 1000 + ExpiresIn, tokenPayload), nowMs)

\* the cookies a client can present: none, junk, the cookie it was given, that
\* cookie re-signed without the secret
Inbound == {NoToken, Garbage} \cup
           (IF jar.token.form = "jwt" THEN {jar.token, Forged(jar.token)} ELSE {})

\* a middleware that answers a token it cannot verify with an anonymous session
middlewareOutcomeFallback(ip, cookie, nowMs, restrict) ==
    IF cookie.form = "none" \/ jwtVerify(cookie, nowMs) # "none" THEN "fresh"
    ELSE IF JSONparse(cookie.data)[<<"originIP">>] # StrNode(ip) /\ restrict = "true"
    THEN "denied"
    ELSE IF HasNull(JSONparse(cookie.data)) THEN "error"
    ELSE "rehydrated"

\* what middleware(req, res, next) decides for an inbound request
middlewareOutcome(ip, cookie, nowMs, restrict) ==
    IF cookie.form = "none" THEN "fresh"
    ELSE IF jwtVerify(cookie, nowMs) # "none" THEN "denied"
    ELSE IF JSONparse(cookie.data)[<<"originIP">>] # StrNode(ip) /\ restrict = "true"
    THEN "denied"
    ELSE IF HasNull(JSONparse(cookie.data)) THEN "error"
    ELSE "rehydrated"

\* a middleware that issues a token for every request it accepts
middlewareResIssuing(out) ==
    [cookie |-> IF out \in {"fresh", "rehydrated"}
                THEN [state |-> "set", token |-> jwtSign(ExpiresIn, EmptyJson),
                      expires |-> ExpiresIn]
                ELSE NoCookie,
     status |-> IF out = "denied" THEN 403 ELSE 0,
     sends |-> IF out = "denied" THEN 1 ELSE 0,
     nexts |-> IF out \in {"fresh", "rehydrated"} THEN 1 ELSE 0]

\* what middleware leaves in the response: a denial is one sendStatus(403), an
\* accepted request one call of next(); no cookie is set
middlewareRes(out) ==
    [cookie |-> NoCookie,
     status |-> IF out = "denied" THEN 403 ELSE 0,
     sends |-> IF out = "denied" THEN 1 ELSE 0,
     nexts |-> IF out \in {"fresh", "rehydrated"} THEN 1 ELSE 0]

\* a middleware that clears the accessToken cookie when it denies a request
MiddlewareOpClearing(r, budget) ==
    /\ pc[r] # "handler"
    /\ nreq < budget
    /\ \E ip \in IPs, cookie \in Inbound :
        LET out == middlewareOutcome(ip, cookie, now, restrictIPAccess)
            tokenData == JSONparse(cookie.data)
        IN /\ req' = [req EXCEPT ![r] = [ip |-> ip, cookie |-> cookie]]
           /\ pc' = [pc EXCEPT ![r] = IF out \in {"fresh", "rehydrated"} THEN "handler"
                                      ELSE out]
           /\ sess' = [sess EXCEPT ![r] =
                          IF out = "fresh" THEN <<SessionObj(EmptyJson, FALSE, ip)>>
                          ELSE IF out = "rehydrated" THEN <<SessionObj(tokenData, TRUE, ip)>>
                          ELSE <<>>]
           /\ cur' = [cur EXCEPT ![r] = IF out \in {"fresh", "rehydrated"} THEN 1 ELSE 0]
           /\ res' = [res EXCEPT ![r] =
                         IF out = "denied"
                         THEN [middlewareRes(out) EXCEPT
                                  !.cookie = [state |-> "cleared", token |-> NoToken,
                                              expires |-> 0]]
                         ELSE middlewareRes(out)]
           /\ last' = [NoLast EXCEPT !.op = "middleware", !.r = r]
    /\ nreq' = nreq + 1
    /\ UNCHANGED <<now, restrictIPAccess, jar, nops>>

\* middleware(req, res, next), to the point where it returns
MiddlewareOp(r, budget) ==
    /\ pc[r] # "handler"
    /\ nreq < budget
    /\ \E ip \in IPs, cookie \in Inbound :
        LET out == middlewareOutcome(ip, cookie, now, restrictIPAccess)
            tokenData == JSONparse(cookie.data)
        IN /\ req' = [req EXCEPT ![r] = [ip |-> ip, cookie |-> cookie]]
           /\ pc' = [pc EXCEPT ![r] = IF out \in {"fresh", "rehydrated"} THEN "handler"
                                      ELSE out]
           /\ sess' = [sess EXCEPT ![r] =
                          IF out = "fresh" THEN <<SessionObj(EmptyJson, FALSE, ip)>>
                          ELSE IF out = "rehydrated" THEN <<SessionObj(tokenData, TRUE, ip)>>
                          ELSE <<>>]
           /\ cur' = [cur EXCEPT ![r] = IF out \in {"fresh", "rehydrated"} THEN 1 ELSE 0]
           /\ res' = [res EXCEPT ![r] = middlewareRes(out)]
           /\ last' = [NoLast EXCEPT !.op = "middleware", !.r = r]
    /\ nreq' = nreq + 1
    /\ UNCHANGED <<now, restrictIPAccess, jar, nops>>

\* sessions kept in one store, keyed by the token presented: a change shows in
\* every request that presented the same token
ApplyShared(r, h, out, op, loc, key, val) ==
    LET done == handlerRun(out)
        payload == JSONstringify(done.tree)
    IN /\ sess' = [x \in Slots |->
                     IF x = r \/ (pc[x] = "handler" /\ req[x].cookie = req[r].cookie
                                  /\ req[r].cookie.form = "jwt" /\ h <= Len(sess[x]))
                     THEN [sess[x] EXCEPT ![h] = done.tree] ELSE sess[x]]
       /\ res' = [res EXCEPT ![r].cookie =
                     IF done.issued > 0 THEN issueToken(payload, now) ELSE @]
       /\ last' = [op |-> op, r |-> r, h |-> h, loc |-> loc, key |-> key,
                   nullval |-> HasNull(val),
                   wrapped |-> sess[r][h][loc].w # <<>>,
                   present |-> Append(loc, key) \in DOMAIN sess[r][h],
                   threw |-> done.threw, issued |-> done.issued]
       /\ nops' = nops + 1
       /\ UNCHANGED <<now, restrictIPAccess, jar, nreq, pc, req, cur>>

\* what a set or delete through session h leaves behind
Apply(r, h, out, op, loc, key, val) ==
    LET done == handlerRun(out)
        payload == JSONstringify(done.tree)
    IN /\ sess' = [sess EXCEPT ![r][h] = done.tree]
       /\ res' = [res EXCEPT ![r].cookie =
                     IF done.issued > 0 THEN issueToken(payload, now) ELSE @]
       /\ last' = [op |-> op, r |-> r, h |-> h, loc |-> loc, key |-> key,
                   nullval |-> HasNull(val),
                   wrapped |-> sess[r][h][loc].w # <<>>,
                   present |-> Append(loc, key) \in DOMAIN sess[r][h],
                   threw |-> done.threw, issued |-> done.issued]
       /\ nops' = nops + 1
       /\ UNCHANGED <<now, restrictIPAccess, jar, nreq, pc, req, cur>>

\* the composite nodes of a session a handler can reach and assign into
Composites(tree) == {p \in DOMAIN tree : tree[p].t = "obj"}

\* handler code: session<loc>[key] = val
SetOp(r, keys, vals, budget) ==
    /\ pc[r] = "handler"
    /\ nops < budget
    /\ \E h \in 1..Len(sess[r]) : \E loc \in Composites(sess[r][h]) :
       \E key \in keys, val \in vals :
        /\ Len(loc) + 1 + Height(val) <= MaxDepth
        /\ Apply(r, h, setTrap(sess[r][h], loc, key, JSONparse(val)), "set", loc, key, val)

\* handler code: delete session<loc>[key]
DeleteOp(r, keys, budget) ==
    /\ pc[r] = "handler"
    /\ nops < budget
    /\ \E h \in 1..Len(sess[r]) : \E loc \in Composites(sess[r][h]) :
       \E key \in keys :
        /\ Len(loc) < MaxDepth
        /\ \E out \in deleteTrap(sess[r][h], loc, key) :
               Apply(r, h, out, "delete", loc, key, EmptyJson)

\* handler code: session<loc>[key] = session<loc>[key], for a composite at key
SetSelf(r) ==
    /\ pc[r] = "handler"
    /\ nops < MaxOpsHandle
    /\ \E h \in 1..Len(sess[r]) : \E loc \in Composites(sess[r][h]) :
       \E key \in KeysHandle :
        /\ Append(loc, key) \in Composites(sess[r][h])
        /\ \E out \in setTrapHandle(sess[r][h], loc, key) :
               Apply(r, h, out, "setself", loc, key, EmptyJson)

Set(r) == SetOp(r, Keys, Vals, MaxOps)
SetHandle(r) == SetOp(r, KeysHandle, ValsHandle, MaxOpsHandle)
Delete(r) == DeleteOp(r, Keys, MaxOps)
SetNull(r) == SetOp(r, KeysNull, ValsNull, MaxOpsNull)
DeleteNull(r) == DeleteOp(r, KeysNull, MaxOpsNull)

\* a terminate callback that builds the new session from the old one's data
terminateCallbackKeeping(r) ==
    [cookie |-> [state |-> "cleared", token |-> NoToken, expires |-> 0],
     session |-> SessionObj(JSONparse(JSONstringify(sess[r][cur[r]])), TRUE, req[r].ip)]

\* a terminate callback that hands out the new session's data without the
\* DeepProxy around it
terminateCallbackUnproxied(r) ==
    [cookie |-> [state |-> "cleared", token |-> NoToken, expires |-> 0],
     session |-> SessionData(EmptyJson, FALSE, req[r].ip)]

\* the terminate callback of createSessionObj: what it leaves in the response
\* and which session it puts in req.clientSession
terminateCallback(r) ==
    [cookie |-> [state |-> "cleared", token |-> NoToken, expires |-> 0],
     session |-> SessionObj(EmptyJson, FALSE, req[r].ip)]

\* handler code: session.terminate().  The call reads the terminate property
\* of the session: where that is no longer a function, the call throws.
TerminateOp(r, budget) ==
    /\ pc[r] = "handler"
    /\ nops < budget
    /\ \E h \in 1..Len(sess[r]) :
        LET callable == sess[r][h][<<"terminate">>].t = "fn"
            done == terminateCallback(r)
        IN /\ res' = [res EXCEPT ![r].cookie = IF callable THEN done.cookie ELSE @]
           /\ sess' = [sess EXCEPT ![r] = IF callable THEN Append(@, done.session) ELSE @]
           /\ cur' = [cur EXCEPT ![r] = IF callable THEN Len(sess[r]) + 1 ELSE @]
           /\ last' = [NoLast EXCEPT !.op = "terminate", !.r = r, !.h = h,
                                     !.threw = IF callable THEN "none" ELSE "type"]
    /\ nops' = nops + 1
    /\ UNCHANGED <<now, restrictIPAccess, jar, nreq, pc, req>>

\* the handler sends its response; the client keeps what the response set
Finish(r) ==
    /\ pc[r] = "handler"
    /\ pc' = [pc EXCEPT ![r] = "done"]
    /\ jar' = IF res[r].cookie.state = "untouched" THEN jar
              ELSE [token |-> res[r].cookie.token, expires |-> res[r].cookie.expires]
    /\ sess' = [sess EXCEPT ![r] = <<>>]
    /\ cur' = [cur EXCEPT ![r] = 0]
    /\ last' = [NoLast EXCEPT !.op = "finish", !.r = r]
    /\ UNCHANGED <<now, restrictIPAccess, nreq, req, res, nops>>

\* time passes.  A handler's sets and deletes run synchronously, so the
\* clock is advanced between requests, while another request can still come.
TickOp(budget) ==
    /\ \A r \in Slots : pc[r] # "handler"
    /\ nreq < budget
    /\ now < MaxTicks * TickMs
    /\ now' = now + TickMs
    /\ last' = [NoLast EXCEPT !.op = "tick"]
    /\ UNCHANGED <<restrictIPAccess, jar, nreq, pc, req, sess, cur, res, nops>>

Middleware(r) == MiddlewareOp(r, MaxReqs)
Terminate(r) == TerminateOp(r, MaxOps)
Tick == TickOp(MaxReqs)

Next ==
    \/ \E r \in Reqs : Middleware(r)
    \/ \E r \in Reqs : Set(r)
    \/ \E r \in Reqs : Delete(r)
    \/ \E r \in Reqs : Terminate(r)
    \/ \E r \in Reqs : Finish(r)
    \/ Tick

Spec == Init /\ [][Next]_vars

\* handlers that assign only null and {}, to keys a and b, and more of them
NextNull ==
    \/ \E r \in Reqs : Middleware(r)
    \/ \E r \in Reqs : SetNull(r)
    \/ \E r \in Reqs : DeleteNull(r)
    \/ \E r \in Reqs : Finish(r)

SpecNull == Init /\ [][NextNull]_vars

\* handlers that assign 0, {} and composites the session already holds
NextHandle ==
    \/ \E r \in Reqs : Middleware(r)
    \/ \E r \in Reqs : SetHandle(r)
    \/ \E r \in Reqs : SetSelf(r)
    \/ \E r \in Reqs : Finish(r)

SpecHandle == Init /\ [][NextHandle]_vars

\* two requests in flight together, their handlers' steps interleaved
MiddlewareConc(r) == MiddlewareOp(r, MaxReqsConc)
SetConc(r) == SetOp(r, KeysConc, ValsHandle, MaxOpsConc)
DeleteConc(r) == DeleteOp(r, KeysConc, MaxOpsConc)
TerminateConc(r) == TerminateOp(r, MaxOpsConc)
TickConc == TickOp(MaxReqsConc)

NextConc ==
    \/ \E r \in Slots : MiddlewareConc(r)
    \/ \E r \in Slots : SetConc(r)
    \/ \E r \in Slots : DeleteConc(r)
    \/ \E r \in Slots : TerminateConc(r)
    \/ \E r \in Slots : Finish(r)
    \/ TickConc

SpecConc == Init /\ [][NextConc]_vars

\* ------------------------------------------------------------------ claims
\* the session the last operation went through, and the path it named
LastTree == sess[last.r][last.h]
LastPath == Append(last.loc, last.key)
LastIsMutation == last.op \in {"set", "delete"}
\* the root keys the claims call reserved
ReservedFieldSet == {"originIP", "terminate"}
\* a set or delete through the root handle on originIP or terminate
LastOnReservedRoot == LastIsMutation /\ last.loc = <<>> /\ last.key \in ReservedFieldSet

\* C1: every set of a non-null value and every delete of a present key, at a
\* path whose first segment is not reserved, invokes the issuance callback
\* exactly once.  (Deletes of absent keys and sets of null are left out: the
\* claim fails without them.)
C1_ExactlyOnce ==
    (/\ LastIsMutation
     /\ LastPath[1] \notin ReservedFieldSet
     /\ ~last.nullval
     /\ (last.op = "delete" => last.present))
    => last.issued = 1

\* C2: a set or delete on the root key originIP or terminate throws and never
\* invokes the issuance callback: the response's cookie is what it was.
C2_ReservedRejected ==
    [][(nops' = nops + 1 /\ LastOnReservedRoot')
       => (last'.threw # "none" /\ last'.issued = 0 /\ res' = res)]_vars

\* C2 witness: a set of terminate is rejected while a credential is outbound
C2_Witness ==
    /\ LastOnReservedRoot
    /\ last.op = "set" /\ last.key = "terminate" /\ last.threw = "reserved"
    /\ res[last.r].cookie.state = "set"

\* C3: a rejected set or delete on a reserved root key leaves the session tree,
\* as serialized, exactly what it was before the call.
C3_RejectedNoEffect ==
    [][(nops' = nops + 1 /\ LastOnReservedRoot' /\ last'.threw # "none")
       => JSONstringify(sess'[last'.r][last'.h]) = JSONstringify(sess[last'.r][last'.h])]_vars

\* C4: after an accepted delete of a present key, the key is no longer in its
\* node, nor in the payload issued for that delete.
C4_DeleteRemoves ==
    (last.op = "delete" /\ last.present /\ last.threw = "none")
    => /\ LastPath \notin DOMAIN LastTree
       /\ last.issued > 0 => LastPath \notin DOMAIN res[last.r].cookie.token.data

\* what C5 expects in a payload: every property of the tree that is not a
\* function, at every depth, with its current value
C5_Expected(tree) ==
    [p \in {q \in DOMAIN tree : tree[q].t # "fn"} |-> [t |-> tree[p].t, v |-> tree[p].v]]

\* C5: the payload of every issuance is the serialization of the whole current
\* root: originIP and every other property with its current value, the value
\* just set included.  A fresh session at ip whose first mutation sets a = 0
\* issues {originIP: ip, a: 0}.
C5_PayloadIsRoot ==
    (LastIsMutation /\ last.issued > 0)
    => LET data == res[last.r].cookie.token.data
       IN /\ res[last.r].cookie.state = "set"
          /\ data = C5_Expected(LastTree)
          /\ <<"originIP">> \in DOMAIN data
          /\ (last.op = "set" => /\ LastPath \in DOMAIN data
                                 /\ data[LastPath] = Prim(LastTree[LastPath].t,
                                                          LastTree[LastPath].v))
          /\ (/\ req[last.r].cookie = NoToken /\ last.h = 1
              /\ DOMAIN LastTree = {<<>>, <<"originIP">>, <<"terminate">>, <<"a">>}
              /\ LastTree[<<"originIP">>] = StrNode(req[last.r].ip)
              /\ LastTree[<<"terminate">>] = FnNode
              /\ LastTree[<<"a">>].t = "num")
             => data = [p \in {<<>>, <<"originIP">>, <<"a">>} |->
                           IF p = <<>> THEN JObj
                           ELSE IF p = <<"originIP">> THEN Prim("str", req[last.r].ip)
                           ELSE Prim("num", LastTree[<<"a">>].v)]

\* C5 witness: a nested set in a rehydrated session issues a payload
C5_Witness ==
    /\ last.op = "set" /\ last.issued = 1 /\ Len(last.loc) = 1
    /\ req[last.r].cookie.form = "jwt"

C7_TokenOnEveryResponse ==
    \A r \in Reqs : pc[r] = "done" => res[r].cookie.state = "set"

\* C8: a request whose inbound token fails verification is answered with one
\* 403, next() is never called and no session is attached.
C8_DeniedOnTokenError ==
    \A r \in Reqs :
        (/\ last.op = "middleware" /\ last.r = r
         /\ req[r].cookie.form # "none"
         /\ jwtVerify(req[r].cookie, now) # "none")
        => /\ pc[r] = "denied"
           /\ res[r].status = 403 /\ res[r].sends = 1 /\ res[r].nexts = 0
           /\ cur[r] = 0 /\ sess[r] = <<>>

\* C8 witness: a token with a good signature, presented after its exp
C8_Witness ==
    \E r \in Reqs : /\ last.op = "middleware" /\ last.r = r
                    /\ jwtVerify(req[r].cookie, now) = "expired"

\* C9: a verified token whose originIP is not the request's origin is denied
\* when restrictIPAccess is true, and otherwise accepted: next() is called and
\* the session holds the token's data (its terminate is the capability).
C9_OriginBinding ==
    \A r \in Reqs :
        (/\ last.op = "middleware" /\ last.r = r
         /\ jwtVerify(req[r].cookie, now) = "none"
         /\ req[r].cookie.data[<<"originIP">>] # Prim("str", req[r].ip))
        => IF restrictIPAccess = "true"
           THEN pc[r] = "denied" /\ res[r].status = 403 /\ res[r].nexts = 0
           ELSE /\ pc[r] = "handler" /\ res[r].nexts = 1 /\ res[r].sends = 0
                /\ cur[r] = 1
                /\ JSONstringify(sess[r][1]) = Remove(req[r].cookie.data, <<"terminate">>)

\* C10: terminate() clears the outbound cookie and puts in req.clientSession a
\* new session whose serialized tree is {originIP: the request's origin}.
C10_TerminateResets ==
    (last.op = "terminate" /\ last.threw = "none")
    => /\ res[last.r].cookie.state = "cleared"
       /\ cur[last.r] = Len(sess[last.r])
       /\ cur[last.r] # last.h
       /\ JSONstringify(sess[last.r][cur[last.r]])
             = [p \in {<<>>, <<"originIP">>} |->
                   IF p = <<>> THEN JObj ELSE Prim("str", req[last.r].ip)]

\* C10 witness: terminate on a rehydrated session that holds data, from an
\* origin other than the one in its token
C10_Witness ==
    /\ last.op = "terminate" /\ last.threw = "none"
    /\ <<"a">> \in DOMAIN LastTree
    /\ LastTree[<<"originIP">>] # StrNode(req[last.r].ip)

\* the inbound token of request r carries the secret's signature, is presented
\* before its exp, and passes the origin check
PresentedInTime(r) ==
    /\ req[r].cookie.form = "jwt" /\ req[r].cookie.sig = "secret"
    /\ now \div 1000 < req[r].cookie.exp
PassesOrigin(r) ==
    \/ restrictIPAccess # "true"
    \/ req[r].cookie.data[<<"originIP">>] = Prim("str", req[r].ip)

\* C11: a credential a request issued, presented again before its exp from an
\* origin the binding lets through, gives the later handler a session whose
\* data is the tree the credential carries, for every tree that accepted
\* mutations can build (a tree that never held a terminate data key).
C11_RoundTrip ==
    \A r \in Reqs :
        (/\ last.op = "middleware" /\ last.r = r
         /\ PresentedInTime(r) /\ PassesOrigin(r)
         /\ <<"terminate">> \notin DOMAIN req[r].cookie.data)
        => /\ pc[r] = "handler" /\ cur[r] = 1
           /\ JSONstringify(sess[r][1]) = req[r].cookie.data

\* C12: a token issued at second t carries exp = t + expiresIn; a token with
\* a good signature is denied when presented at a second >= exp, and is not
\* denied before exp (when the origin check lets it through).
C12_Expiry ==
    /\ (LastIsMutation /\ last.issued > 0)
       => res[last.r].cookie.token.exp = now \div 1000 + ExpiresIn
    /\ \A r \in Reqs :
        (/\ last.op = "middleware" /\ last.r = r
         /\ req[r].cookie.form = "jwt" /\ req[r].cookie.sig = "secret")
        => /\ now \div 1000 >= req[r].cookie.exp
              => (pc[r] = "denied" /\ res[r].status = 403 /\ res[r].nexts = 0)
           /\ (now \div 1000 < req[r].cookie.exp /\ PassesOrigin(r))
              => (pc[r] # "denied" /\ res[r].sends = 0 /\ res[r].status = 0)

\* C12 witness: a token presented in the very second its exp names
C12_Witness ==
    \E r \in Reqs : /\ last.op = "middleware" /\ last.r = r
                    /\ req[r].cookie.form = "jwt" /\ req[r].cookie.sig = "secret"
                    /\ now \div 1000 = req[r].cookie.exp
                    /\ pc[r] = "denied"

\* C13: the cookie set by an issuance expires expiresIn seconds from now, not
\* before the token it carries.
C13_CookieExpiry ==
    (LastIsMutation /\ last.issued > 0)
    => /\ res[last.r].cookie.expires = now + ExpiresIn * 1000
       /\ res[last.r].cookie.expires >= res[last.r].cookie.token.exp * 1000

\* C14: no issued payload has a terminate key, whatever was attempted on the
\* reserved keys, and every session just built has terminate as a function.
C14_TerminateNotPersisted ==
    /\ \A r \in Reqs : res[r].cookie.state = "set"
                       => <<"terminate">> \notin DOMAIN res[r].cookie.token.data
    /\ ((last.op = "middleware" /\ pc[last.r] = "handler")
        \/ (last.op = "terminate" /\ last.threw = "none"))
       => sess[last.r][cur[last.r]][<<"terminate">>].t = "fn"

\* C15: a session built without a token has originIP = the request's origin;
\* a session built from a token has the token's originIP, whatever the
\* request's origin.
C15_OriginFromConstruction ==
    /\ \A r \in Reqs :
        (last.op = "middleware" /\ last.r = r /\ pc[r] = "handler")
        => LET o == sess[r][1][<<"originIP">>]
           IN IF req[r].cookie.form = "none" THEN o = StrNode(req[r].ip)
              ELSE Prim(o.t, o.v) = req[r].cookie.data[<<"originIP">>]
    /\ (last.op = "terminate" /\ last.threw = "none")
       => sess[last.r][cur[last.r]][<<"originIP">>] = StrNode(req[last.r].ip)

\* C15 witness: a session rehydrated at an origin other than its token's
C15_Witness ==
    \E r \in Reqs : /\ last.op = "middleware" /\ last.r = r /\ pc[r] = "handler"
                    /\ req[r].cookie.form = "jwt"
                    /\ req[r].cookie.data[<<"originIP">>] # Prim("str", req[r].ip)

\* C16: while a handler runs, req.clientSession is a session tracked at its
\* root; right after terminate() it is a new anonymous session, its terminate
\* a function, and a set through it issues a token.
C16_LiveHandle ==
    /\ \A r \in Reqs : pc[r] = "handler"
          => /\ cur[r] \in 1..Len(sess[r])
             /\ sess[r][cur[r]][<<>>].t = "obj"
             /\ sess[r][cur[r]][<<>>].w = << <<>> >>
    /\ (last.op = "terminate" /\ last.threw = "none")
       => LET new == sess[last.r][cur[last.r]]
          IN /\ DOMAIN new = {<<>>, <<"originIP">>, <<"terminate">>}
             /\ new[<<"originIP">>] = StrNode(req[last.r].ip)
             /\ new[<<"terminate">>].t = "fn"
    /\ (/\ last.op = "set" /\ last.h = cur[last.r] /\ last.loc = <<>>
        /\ last.key \notin ReservedFieldSet /\ last.threw = "none")
       => /\ last.issued = 1
          /\ res[last.r].cookie.state = "set"
          /\ <<last.key>> \in DOMAIN res[last.r].cookie.token.data

\* C16 witness: a set through the session that terminate() put in place
C16_Witness ==
    /\ last.op = "set" /\ last.h > 1 /\ last.h = cur[last.r]
    /\ last.issued = 1

\* C17: every composite of every session tree is wrapped exactly once.
C17_WrappedOnce ==
    \A r \in Reqs : \A h \in 1..Len(sess[r]) :
        \A p \in Composites(sess[r][h]) : Len(sess[r][h][p].w) = 1

\* C18: after a set of a composite at key k of the node at path p, every
\* composite of the stored subtree is wrapped once, with its own path under
\* p + [k]; and a set or delete inside a subtree issues exactly once, or is
\* rejected when the first segment is reserved.
C18_SubtreeWrapped ==
    /\ (last.op = "set" /\ last.threw # "type" /\ LastPath \in DOMAIN LastTree)
       => \A q \in Composites(LastTree) :
             IsPrefix(LastPath, q) => LastTree[q].w = <<q>>
    /\ (/\ LastIsMutation /\ Len(last.loc) >= 1 /\ ~last.nullval
        /\ (last.op = "delete" => last.present))
       => IF LastPath[1] \in ReservedFieldSet
          THEN last.threw = "reserved"
          ELSE last.issued = 1

\* C20: a set or delete at a nested path is accepted and issues when the
\* first segment is not reserved, whatever the leaf key is called; a set or
\* delete at a path whose first segment is reserved is rejected.
C20_GuardFirstSegment ==
    (LastIsMutation /\ ~last.nullval /\ (last.op = "delete" => last.present))
    => /\ (Len(last.loc) >= 1 /\ last.loc[1] \notin ReservedFieldSet)
          => (last.threw = "none" /\ last.issued >= 1
              /\ res[last.r].cookie.state = "set")
       /\ LastPath[1] \in ReservedFieldSet
          => (last.threw = "reserved" /\ last.issued = 0)

\* what C20 says, for the nodes that are still tracked
C20_OnTracked ==
    last.wrapped => C20_GuardFirstSegment

\* a nested set of a key named originIP, under a, that issued
C20_TrackedCase ==
    /\ last.op = "set" /\ last.loc = <<"a">> /\ last.key = "originIP"
    /\ last.wrapped /\ last.issued = 1

\* C19: assigning to a key the tracked handle that key already holds stores
\* that same handle: the composite has still one wrapper, as have the
\* composites below it, and the assignment issues exactly once.
C19_Idempotent ==
    (last.op = "setself" /\ last.wrapped)
    => /\ \A q \in Composites(LastTree) :
             IsPrefix(LastPath, q) => Len(LastTree[q].w) <= 1
       /\ last.threw = "none" => last.issued = 1

\* C21: a set of null at a non-reserved key is accepted, stored and issues
\* once; a verified token whose payload holds a null is rehydrated and the
\* handler runs.
C21_NullSupported ==
    /\ (last.op = "set" /\ last.nullval /\ LastPath[1] \notin ReservedFieldSet)
       => /\ last.threw = "none" /\ last.issued = 1
          /\ LastPath \in DOMAIN LastTree
          /\ HasNull(JSONparse(JSONstringify(LastTree)))
    /\ \A r \in Reqs :
        (/\ last.op = "middleware" /\ last.r = r
         /\ PresentedInTime(r) /\ PassesOrigin(r)
         /\ \E p \in DOMAIN req[r].cookie.data : req[r].cookie.data[p].t = "null")
        => (pc[r] = "handler" /\ cur[r] = 1)

\* C22: once terminate() has run in a request, a credential issued later in
\* that request carries the data of the replacement session, also when the
\* mutation that issued it went through a handle of the terminated session.
C22_ReplacementSoleAuthority ==
    (LastIsMutation /\ last.issued > 0 /\ Len(sess[last.r]) > 1)
    => /\ res[last.r].cookie.state = "set"
       /\ res[last.r].cookie.token.data = JSONstringify(sess[last.r][cur[last.r]])

\* C23: a request the middleware denies gets no accessToken cookie, set or
\* cleared, and no session, and the client's cookie stays what it was; the
\* same token presented again from the same origin is denied again.
C23_DeniedUntouched ==
    [][/\ \A r \in Slots :
            (last'.op = "middleware" /\ last'.r = r /\ pc'[r] = "denied")
            => /\ res'[r].cookie.state = "untouched"
               /\ res'[r].sends = 1 /\ res'[r].nexts = 0
               /\ jar' = jar
               /\ cur'[r] = 0 /\ sess'[r] = <<>>
       /\ \A r, x \in Slots :
            (/\ pc[x] = "denied"
             /\ last'.op = "middleware" /\ last'.r = r /\ req'[r] = req[x])
            => pc'[r] = "denied"]_vars

\* C23 witness: a token the client was issued, denied in two requests
C23_Witness ==
    /\ pc[1] = "denied" /\ pc[2] = "denied"
    /\ req[1] = req[2] /\ req[1].cookie.form = "jwt" /\ req[1].cookie.sig = "secret"
    /\ res[1].cookie.state = "untouched" /\ res[2].cookie.state = "untouched"
    /\ jar.token = req[1].cookie

\* C24: a set, delete or terminate in one request changes neither the
\* sessions nor the response of another; a rehydrated session starts as its
\* own inbound token's data, and a credential a request issues is the
\* serialization of the session the mutation went through.
C24_Isolation ==
    [][/\ \A r \in Slots :
            (last'.op \in {"set", "delete", "terminate"} /\ last'.r # r)
            => (sess'[r] = sess[r] /\ cur'[r] = cur[r] /\ res'[r] = res[r]
                /\ req'[r] = req[r] /\ pc'[r] = pc[r])
       /\ \A r \in Slots :
            (/\ last'.op = "middleware" /\ last'.r = r /\ pc'[r] = "handler"
             /\ req'[r].cookie.form = "jwt")
            => JSONstringify(sess'[r][1]) = Remove(req'[r].cookie.data, <<"terminate">>)
       /\ (last'.op \in {"set", "delete"} /\ last'.issued > 0 /\ nops' = nops + 1)
          => res'[last'.r].cookie.token.data = JSONstringify(sess'[last'.r][last'.h])]_vars

\* C24 witness: two requests in flight that presented the same token, one of
\* them having just issued after a mutation the other does not see
C24_Witness ==
    /\ pc[1] = "handler" /\ pc[2] = "handler"
    /\ req[1].cookie = req[2].cookie /\ req[1].cookie.form = "jwt"
    /\ LastIsMutation /\ last.issued > 0
    /\ JSONstringify(sess[1][1]) # JSONstringify(sess[2][1])

====
